---- MODULE Spec2Model ----
(***************************************************************************)
(* Pairing registry of baileyspy (src/baileyspy/pairing.py,                *)
(* class PairingManager) and connection lifecycle                          *)
(* (src/baileyspy/connection.py, class ConnectionManager, with the         *)
(* connection state of BaileysClient, src/baileyspy/client.py) as state    *)
(* machines.                                                               *)
(*                                                                         *)
(* Every coroutine of PairingManager that awaits client.send_message is    *)
(* split at that await: the part before it is one action (the checks and   *)
(* early raises), the part after it is a second action that runs when the  *)
(* backend answers.  Coroutines suspended at the await are kept in the bag *)
(* `calls` together with the locals they read after the await.             *)
(*                                                                         *)
(* What a call returns or raises is a function of the state it runs in    *)
(* and of its arguments: the operators RequestCheck, VerifyCheck,          *)
(* CompleteCheck, RevokeCheck and ResumeResult give it.  A call that       *)
(* raises before its await changes nothing unless its action says so.      *)
(*                                                                         *)
(* Time is one integer clock `now`, in seconds.  It stands for both        *)
(* datetime.now() and int(asyncio.get_event_loop().time()).                *)
(***************************************************************************)
EXTENDS Integers, Sequences, FiniteSets, Bags, TLC

VARIABLES
    pairing_codes,      \* self.pairing_codes: pairing id -> record
    active_pairings,    \* self.active_pairings: device id -> record
    is_pairing_active,  \* self.is_pairing_active
    calls,              \* coroutines suspended at `await client.send_message`
    now,                \* the clock, in seconds
    issued,             \* what the successful request_pairing_code calls returned
    session_id,         \* ConnectionManager.session_id
    is_authenticated,   \* ConnectionManager.is_authenticated
    auth_state,         \* ConnectionManager.auth_state
    session_store,      \* the files sessions/<session_id>/auth.json
    polling,            \* the connect() coroutine, asleep in _wait_for_authentication
    conn_result,        \* what the last connect() returned, and how many returned
    forwarded,          \* payloads handed to _communicate_with_backend
    is_connected,       \* BaileysClient.is_connected
    phone_number,       \* BaileysClient.phone_number
    session_file,       \* the file <session_dir>/session.json of BaileysClient
    active_calls,       \* CallManager.active_calls: call id -> record
    is_call_active,     \* CallManager.is_call_active
    group_cache         \* GroupManager.group_cache: group id -> record

pairVars == <<pairing_codes, active_pairings, is_pairing_active, calls, now, issued>>
connVars == <<session_id, is_authenticated, auth_state, session_store, polling,
              conn_result, forwarded, is_connected, phone_number, session_file>>
callVars == <<active_calls, is_call_active>>
groupVars == <<group_cache>>
vars == <<pairVars, connVars, callVars, groupVars>>

----------------------------------------------------------------------------
(* Program constants *)

MinDigits == 8          \* shortest accepted phone number, in digits
MinCodeLen == 4         \* shortest accepted pairing code, in characters
CodeLength == 8         \* length of a generated code
ExpiryMinutes == 60     \* life time of a pairing code

ExpirySeconds == ExpiryMinutes * 60

(* Bounds of the model *)

MaxOffset == 0          \* single seconds the clock advances after each long step
MaxPending == 2         \* coroutines suspended at the same time
MaxRequests == 2        \* request_pairing_code calls that reach the backend

LongStep == ExpirySeconds + 1           \* long enough for a fresh code to expire
MaxNow == LongStep + MaxOffset          \* the clock stops here

NoTime == -1            \* a timestamp key that is absent from the dict
UnknownId == -1         \* a pairing id that no request ever returned

----------------------------------------------------------------------------
(* Characters and strings.  A Python str is a sequence of one-character    *)
(* strings.                                                                *)

Digits == {"0", "1", "2", "3", "4", "5", "6", "7", "8", "9"}
Whitespace == {" "}
ValidChars == {"A", "B", "C", "D", "E", "F"}

\* str.upper() on one character
Upper(c) ==
    CASE c = "a" -> "A"
      [] c = "b" -> "B"
      [] c = "c" -> "C"
      [] c = "d" -> "D"
      [] c = "e" -> "E"
      [] c = "f" -> "F"
      [] c = "z" -> "Z"
      [] OTHER -> c

UpperStr(s) == [i \in 1..Len(s) |-> Upper(s[i])]

IsHyphen(c) == c = "-"
NotHyphen(c) == ~IsHyphen(c)
IsDigit(c) == c \in Digits
NotSpace(c) == c \notin Whitespace

\* code.replace('-', '').upper()
NormalizeCode(code) == UpperStr(SelectSeq(code, NotHyphen))

\* ''.join(filter(str.isdigit, number))
CleanNumber(number) == SelectSeq(number, IsDigit)

\* `not number or not number.strip()`
NumberIsBlank(number) == SelectSeq(number, NotSpace) = <<>>

\* a validation that tests the length only and lets every character through
ValidateLengthOnly(code) == Len(code) >= MinCodeLen

\* _validate_pairing_code raises ValueError exactly when this is FALSE;
\* otherwise it returns NormalizeCode(code).
ValidatePairingCode(code) ==
    /\ Len(code) >= MinCodeLen
    /\ \A i \in 1..Len(NormalizeCode(code)) : NormalizeCode(code)[i] \in ValidChars

\* _calculate_expiry(), called at time t
CalculateExpiry(t) == t + ExpirySeconds

\* `datetime.now() > expiry_time`
HasExpired(rec, t) == t > rec.expires_at

----------------------------------------------------------------------------
(* Inputs *)

NumA == <<"1", "5", "5", "5", "1", "2", "3", "4", "5", "6", "7">>
NumB == <<"+", "4", "4", " ", "2", "0", "7", "9", "4", "6", "0", "9", "5">>
NumShort == <<"1", "2", "3", "-", "4", "5", "6", "7">>
NumBlank == <<" ">>

CodeNone == <<>>
CodeCustom == <<"a", "b", "c", "d", "-", "E", "F", "A", "B">>
CodeUpper == <<"A", "B", "C", "D", "E", "F", "A", "B">>
CodeBadChar == <<"Z", "Z", "Z", "Z", "Z", "Z", "Z", "Z">>
CodeShort == <<"A", "B", "C">>
CodeHyphenShort == <<"A", "-", "B", "-">>

\* results of _generate_pairing_code(): CodeLength characters of ValidChars
CodeGenerated == [i \in 1..CodeLength |-> "F"]
GeneratedCodes == { CodeGenerated }

\* the arguments (number, code) of request_pairing_code
RequestInputs ==
    { <<NumA, CodeNone>>, <<NumB, CodeCustom>>, <<NumShort, CodeNone>>,
      <<NumBlank, CodeCustom>>, <<NumA, CodeBadChar>>, <<NumB, CodeShort>> }

\* the same, with one more custom code: four characters, two of them hyphens
CustomInputs == RequestInputs \cup { <<NumA, CodeHyphenShort>> }

\* the `code` argument of verify_pairing_code
VerifyCodeInputs ==
    {CodeGenerated, CodeCustom, CodeUpper, CodeBadChar, CodeShort, CodeHyphenShort}

KnownIds == DOMAIN pairing_codes
IdInputs == KnownIds \cup {UnknownId}

----------------------------------------------------------------------------
(* Records *)

NoTokens == <<>>

NewRequest(pid, number, code, t) ==
    [ pairing_id   |-> pid,
      number       |-> number,
      code         |-> code,
      status       |-> "requested",
      requested_at |-> t,
      expires_at   |-> CalculateExpiry(t),
      verified_at  |-> NoTime,
      completed_at |-> NoTime,
      revoked_at   |-> NoTime,
      auth_tokens  |-> NoTokens ]

\* a coroutine suspended at its await, with the locals it uses afterwards and
\* the instant of the call
Suspended(op, pid, number, code) ==
    [ op |-> op, pairing_id |-> pid, number |-> number, code |-> code,
      called_at |-> now ]

Pending == BagCardinality(calls)
CanSuspend == Pending < MaxPending
Suspend(c) == calls' = calls (+) SetToBag({c})
Resume(c) == calls' = calls (-) SetToBag({c})
PendingRequests ==
    BagCardinality([c \in {d \in BagToSet(calls) : d.op = "request"} |-> calls[c]])

----------------------------------------------------------------------------
EmptyMap == [k \in {} |-> NoTime]

\* PairingManager.__init__
PairingFresh ==
    /\ pairing_codes = EmptyMap
    /\ active_pairings = EmptyMap
    /\ is_pairing_active = FALSE
    /\ calls = EmptyBag
    /\ now = 0
    /\ issued = <<>>

----------------------------------------------------------------------------
(* Connection: constants, inputs and records *)

QrTimeout == 30         \* config 'qr_timeout', seconds
PollInterval == 2       \* asyncio.sleep(2) before each status check
RetryPause == 1         \* asyncio.sleep(1) after a status check that raised

MaxConnects == 2        \* connect() calls that return
MaxForwarded == 2       \* payloads forwarded to the backend

Sessions == {"s1", "s2"}
ClientSession == "s1"   \* BaileysClient.session_id, fixed at construction
NoSession == "None"
NoPhone == "None"
StoredPhone == "15550001"   \* phone number in a session file of an earlier run
ScannedPhone == "15550002"  \* phone number the backend reports after the scan

RequiredFields == {"phone_number", "session_id", "auth_token"}

\* a session file written without auth_token
AuthDataNoToken(phone, s) == [ phone_number |-> phone, session_id |-> s ]

\* auth_data of _save_auth_data, lines 238-244 (without the timestamp)
AuthData(phone, s) ==
    [ phone_number |-> phone,
      session_id   |-> s,
      auth_token   |-> "simulated_token",
      device_id    |-> "simulated_device" ]

\* a validation that accepts nothing
IsAuthDataNeverValid(data) == FALSE

\* a session file that lacks auth_token
CorruptData(phone, s) == [ phone_number |-> phone, session_id |-> s ]

\* a session file that json.load cannot parse
Unreadable == [ json |-> "invalid" ]

\* a session file that holds the JSON list
\* ["phone_number", "session_id", "auth_token"] and no object
FieldNameList == [ json |-> "list", items |-> RequiredFields ]

\* the parsed file is a dict
IsDict(data) == "json" \notin DOMAIN data

\* Python's `field in auth_data`: a key of a dict, an element of a list
Contains(data, field) ==
    IF IsDict(data) THEN field \in DOMAIN data ELSE field \in data.items

\* _is_auth_data_valid
IsAuthDataValid(data) == \A field \in RequiredFields : Contains(data, field)

\* _load_auth_data returns the data of the file and not None: the file
\* exists, json.load parses it and _is_auth_data_valid accepts it
HasValidSession(s) ==
    /\ s \in DOMAIN session_store
    /\ session_store[s] # Unreadable
    /\ IsAuthDataValid(session_store[s])

EmptyState == [k \in {} |-> NoPhone]
NoFiles == [k \in {} |-> EmptyState]

\* the session directories an earlier run can have left behind
StoredFiles ==
    { NoFiles,
      "s1" :> AuthData(StoredPhone, "s1"),
      "s1" :> CorruptData(StoredPhone, "s1"),
      "s1" :> Unreadable,
      "s1" :> FieldNameList,
      ("s1" :> AuthData(StoredPhone, "s1")) @@ ("s2" :> CorruptData(StoredPhone, "s2")) }

\* the suspended connect(): seconds since start_time, whether it was called
\* through BaileysClient, the pairing artifact of _generate_qr_code it waits
\* on, and (history) whether disconnect() ran since it started
NoQr == "None"
NoPoll == [ elapsed |-> -1, client |-> FALSE, qr |-> NoQr, disconnected |-> FALSE ]

\* qr_data of _generate_qr_code, with the default pairing code
QrData(s) == <<"1@", s, "AAAAAAAA">>

\* the last return of connect(): `client` is what the caller of
\* BaileysClient.connect received ("n/a" for a direct call of the manager)
NoResult ==
    [ n |-> 0, status |-> "none", reason |-> "", phone_number |-> NoPhone,
      client |-> "n/a" ]

\* what one authentication-status query can answer: the dict of
\* _check_auth_status with authenticated false and no error ("pending", the
\* only answer of the in-repo stub), with authenticated true, with an error,
\* or an exception that the status check raises to the loop of
\* _wait_for_authentication ("raises")
StubAnswers == {"pending"}
BackendAnswers == {"pending", "authenticated", "error", "raises"}

\* the states of self.websocket at disconnect(): never opened, open, and open
\* with a close() that raises
TransportHandles == {"None", "open", "close_fails"}

\* ConnectionManager.__init__ and BaileysClient.__init__, over the session
\* files `files`
\* no session.json in the session directory
NoFile == [ file |-> "absent" ]

ConnectionFresh(files) ==
    /\ session_id = NoSession
    /\ is_authenticated = FALSE
    /\ auth_state = EmptyState
    /\ session_store = files
    /\ polling = NoPoll
    /\ conn_result = NoResult
    /\ forwarded = 0
    /\ is_connected = FALSE
    /\ phone_number = NoPhone
    /\ session_file = NoFile

\* GroupManager.__init__, line 33
NoGroups == << >>

GroupsFresh == group_cache = NoGroups

\* CallManager.__init__
NoCalls == [k \in {} |-> NoTime]

CallsFresh ==
    /\ active_calls = NoCalls
    /\ is_call_active = FALSE

Init ==
    /\ PairingFresh
    /\ ConnectionFresh(NoFiles)
    /\ CallsFresh
    /\ GroupsFresh

----------------------------------------------------------------------------
(* request_pairing_code *)

\* lines 52-66: what the call does before its await
RequestCheck(number, code) ==
    IF NumberIsBlank(number) \/ Len(CleanNumber(number)) < MinDigits
    THEN "InvalidInput"
    ELSE IF code # CodeNone /\ ~ValidatePairingCode(code)
    THEN "InvalidPairingCode"
    ELSE "await"

\* the part before `await client.send_message`
RequestPairingCode(number, code) ==
    /\ UNCHANGED <<connVars, callVars, groupVars>>
    /\ UNCHANGED <<pairing_codes, active_pairings, is_pairing_active, now, issued>>
    /\ IF RequestCheck(number, code) # "await"
       THEN UNCHANGED calls
       ELSE /\ CanSuspend
            /\ Len(issued) + PendingRequests < MaxRequests
            /\ \E c \in (IF code = CodeNone THEN GeneratedCodes ELSE {code}) :
                  Suspend(Suspended("request", UnknownId, CleanNumber(number), c))

\* f"pair_{int(asyncio.get_event_loop().time())}"
NewPairingId(t) == t

\* lines 85-92
Registered(registry, pid, number, code, t) ==
    (pid :> NewRequest(pid, number, code, t)) @@ registry

\* the part after the await: the record is stored under the id of this second
RequestResume(c) ==
    /\ UNCHANGED <<connVars, callVars, groupVars>>
    /\ c.op = "request"
    /\ Resume(c)
    /\ pairing_codes' = Registered(pairing_codes, NewPairingId(now), c.number, c.code, now)
    /\ issued' = Append(issued, [ pairing_id   |-> NewPairingId(now),
                                  pairing_code |-> c.code,
                                  number       |-> c.number,
                                  expires_at   |-> CalculateExpiry(now) ])
    /\ UNCHANGED <<active_pairings, is_pairing_active, now>>

----------------------------------------------------------------------------
(* verify_pairing_code *)

\* lines 180-196: what the call does before its await
VerifyCheck(pid, code) ==
    IF pid \notin KnownIds
    THEN "NotFound"
    ELSE IF HasExpired(pairing_codes[pid], now)
    THEN "Expired"
    ELSE IF ~ValidatePairingCode(code)
    THEN "InvalidPairingCode"
    ELSE IF NormalizeCode(code) # NormalizeCode(pairing_codes[pid].code)
    THEN "Mismatch"
    ELSE "await"

VerifyPairingCode(pid, code) ==
    /\ UNCHANGED <<connVars, callVars, groupVars>>
    /\ UNCHANGED <<active_pairings, is_pairing_active, now, issued>>
    /\ IF VerifyCheck(pid, code) = "Expired"
       THEN /\ pairing_codes' = [pairing_codes EXCEPT ![pid].status = "expired"]
            /\ UNCHANGED calls
       ELSE IF VerifyCheck(pid, code) # "await"
       THEN UNCHANGED <<pairing_codes, calls>>
       ELSE /\ CanSuspend
            /\ Suspend(Suspended("verify", pid, <<>>, CodeNone))
            /\ UNCHANGED pairing_codes

\* a coroutine resumed after its await writes self.pairing_codes[pairing_id]:
\* KeyError when the record is gone
ResumeResult(c) ==
    IF c.op # "request" /\ c.pairing_id \notin KnownIds THEN "KeyError" ELSE "ok"

\* lines 214-215
Verified(rec, t) == [rec EXCEPT !.status = "verified", !.verified_at = t]

VerifyResume(c) ==
    /\ UNCHANGED <<connVars, callVars, groupVars>>
    /\ c.op = "verify"
    /\ Resume(c)
    /\ UNCHANGED <<active_pairings, is_pairing_active, now, issued>>
    /\ IF ResumeResult(c) = "KeyError"
       THEN UNCHANGED pairing_codes
       ELSE pairing_codes' = [pairing_codes EXCEPT ![c.pairing_id] = Verified(@, now)]

----------------------------------------------------------------------------
(* complete_pairing *)

\* a completion check that also lets a request through that was never verified
MayCompleteUnverified(rec) == rec.status \in {"requested", "verified"}

\* line 247: the only condition complete_pairing tests on the record
MayComplete(rec) == rec.status = "verified"

\* lines 242-248: what the call does before its await
CompleteCheck(pid) ==
    IF pid \notin KnownIds
    THEN "NotFound"
    ELSE IF ~MayComplete(pairing_codes[pid])
    THEN "InvalidState"
    ELSE "await"

CompletePairing(pid) ==
    /\ UNCHANGED <<connVars, callVars, groupVars>>
    /\ UNCHANGED <<pairing_codes, active_pairings, is_pairing_active, now, issued>>
    /\ IF CompleteCheck(pid) # "await"
       THEN UNCHANGED calls
       ELSE /\ CanSuspend
            /\ Suspend(Suspended("complete", pid, pairing_codes[pid].number, CodeNone))

\* lines 265-269; both ids are int(loop.time()) of the same instant
AuthTokens(number, t) ==
    [ auth_token |-> t, device_id |-> t, phone_number |-> number ]

\* lines 272-274
Completed(rec, tokens, t) ==
    [rec EXCEPT !.status = "completed", !.completed_at = t, !.auth_tokens = <<tokens>>]

\* lines 278-284
ActivePairing(tokens, pid, t) ==
    [ device_id    |-> tokens.device_id,
      phone_number |-> tokens.phone_number,
      paired_at    |-> t,
      auth_token   |-> tokens.auth_token,
      pairing_id   |-> pid ]

\* a completion that records no active pairing
PairedNothing(active, tokens, pid, t) == active

\* line 278: self.active_pairings[device_id] = {...}
Paired(active, tokens, pid, t) ==
    (tokens.device_id :> ActivePairing(tokens, pid, t)) @@ active

CompleteResume(c) ==
    /\ UNCHANGED <<connVars, callVars, groupVars>>
    /\ c.op = "complete"
    /\ Resume(c)
    /\ UNCHANGED <<now, issued>>
    /\ IF ResumeResult(c) = "KeyError"
       THEN UNCHANGED <<pairing_codes, active_pairings, is_pairing_active>>
       ELSE /\ pairing_codes' =
                  [pairing_codes EXCEPT
                      ![c.pairing_id] = Completed(@, AuthTokens(c.number, now), now)]
            /\ active_pairings' =
                  Paired(active_pairings, AuthTokens(c.number, now), c.pairing_id, now)
            /\ is_pairing_active' = TRUE

----------------------------------------------------------------------------
(* revoke_pairing *)

\* a revocation that refuses a request that is already revoked
RevokeCheckOnce(pid) ==
    IF pid \notin DOMAIN pairing_codes
    THEN "NotFound"
    ELSE IF pairing_codes[pid].status = "revoked"
    THEN "InvalidState"
    ELSE "await"

\* lines 358-359: what the call does before its await
RevokeCheck(pid) == IF pid \notin KnownIds THEN "NotFound" ELSE "await"

RevokePairing(pid) ==
    /\ UNCHANGED <<connVars, callVars, groupVars>>
    /\ UNCHANGED <<pairing_codes, active_pairings, is_pairing_active, now, issued>>
    /\ IF RevokeCheck(pid) # "await"
       THEN UNCHANGED calls
       ELSE /\ CanSuspend
            /\ Suspend(Suspended("revoke", pid, <<>>, CodeNone))

\* lines 378-379
Revoked(rec, t) == [rec EXCEPT !.status = "revoked", !.revoked_at = t]

RevokeResume(c) ==
    /\ UNCHANGED <<connVars, callVars, groupVars>>
    /\ c.op = "revoke"
    /\ Resume(c)
    /\ UNCHANGED <<active_pairings, is_pairing_active, now, issued>>
    /\ IF ResumeResult(c) = "KeyError"
       THEN UNCHANGED pairing_codes
       ELSE pairing_codes' = [pairing_codes EXCEPT ![c.pairing_id] = Revoked(@, now)]

\* client.send_message raises: the exception leaves the coroutine at the await
BackendFails(c) ==
    /\ UNCHANGED <<connVars, callVars, groupVars>>
    /\ Resume(c)
    /\ UNCHANGED <<pairing_codes, active_pairings, is_pairing_active, now, issued>>

----------------------------------------------------------------------------
(* Operations without an await *)

\* a status read that trusts the stored status without testing the expiry
StatusOnReadNoExpiry(rec, t) == rec.status

\* lines 320-324: the status a read reports and stores
StatusOnRead(rec, t) ==
    IF rec.status \in {"requested", "verified"} /\ HasExpired(rec, t)
    THEN "expired"
    ELSE rec.status

\* lines 314-315
StatusCheck(pid) == IF pid \notin KnownIds THEN "NotFound" ELSE "ok"

\* a status read that stores the expiry of every overdue request it passes
GetPairingStatusOfAll(pid) ==
    /\ UNCHANGED <<connVars, callVars, groupVars>>
    /\ UNCHANGED <<active_pairings, is_pairing_active, calls, now, issued>>
    /\ IF pid \notin DOMAIN pairing_codes
       THEN UNCHANGED pairing_codes
       ELSE pairing_codes' =
               [p \in DOMAIN pairing_codes |->
                   IF pairing_codes[p].status \in {"requested", "verified"}
                      /\ now > pairing_codes[p].expires_at
                   THEN [pairing_codes[p] EXCEPT !.status = "expired"]
                   ELSE pairing_codes[p]]

GetPairingStatus(pid) ==
    /\ UNCHANGED <<connVars, callVars, groupVars>>
    /\ UNCHANGED <<active_pairings, is_pairing_active, calls, now, issued>>
    /\ IF StatusCheck(pid) = "NotFound"
       THEN UNCHANGED pairing_codes
       ELSE pairing_codes' = [pairing_codes EXCEPT
                                 ![pid].status = StatusOnRead(pairing_codes[pid], now)]

\* a sweep that looks at `requested` records only
SweptRequestedOnly(rec, t) ==
    IF rec.status = "requested" /\ t > rec.expires_at
    THEN [rec EXCEPT !.status = "expired"]
    ELSE rec

\* lines 412-417: one record of the sweep
Swept(rec, t) ==
    IF rec.status \in {"requested", "verified"} /\ HasExpired(rec, t)
    THEN [rec EXCEPT !.status = "expired"]
    ELSE rec

CleanupExpiredCodes ==
    /\ UNCHANGED <<connVars, callVars, groupVars>>
    /\ pairing_codes' = [p \in KnownIds |-> Swept(pairing_codes[p], now)]
    /\ UNCHANGED <<active_pairings, is_pairing_active, calls, now, issued>>

\* a count that does not look at the status
CountStatusAll(s) == Cardinality(DOMAIN pairing_codes)

\* lines 434-441: sum(1 for p in self.pairing_codes.values() if p['status'] == s)
CountStatus(s) == Cardinality({p \in KnownIds : pairing_codes[p].status = s})

\* lines 433-449: the dict get_pairing_statistics returns
Statistics ==
    [ total_requests     |-> Cardinality(KnownIds),
      completed_requests |-> CountStatus("completed"),
      expired_requests   |-> CountStatus("expired"),
      active_pairings    |-> Cardinality(DOMAIN active_pairings),
      is_pairing_active  |-> is_pairing_active ]

GetPairingStatistics ==
    /\ Statistics.total_requests >= 0
    /\ UNCHANGED vars

ResetPairingState ==
    /\ UNCHANGED <<connVars, callVars, groupVars>>
    /\ pairing_codes' = EmptyMap
    /\ active_pairings' = EmptyMap
    /\ is_pairing_active' = FALSE
    /\ UNCHANGED <<calls, now, issued>>

\* the clock advances, by a second or by a long step
Tick(d) ==
    /\ UNCHANGED <<connVars, callVars, groupVars>>
    /\ now + d <= MaxNow
    /\ d = 1 => now % LongStep < MaxOffset
    /\ now' = now + d
    /\ UNCHANGED <<pairing_codes, active_pairings, is_pairing_active, calls, issued>>

----------------------------------------------------------------------------
(* ConnectionManager and the connection state of BaileysClient *)

\* connect() returns: ConnectionManager.connect hands the dict to its caller;
\* called through BaileysClient.connect, a `connected` result sets the
\* client's is_connected and phone_number (client.py lines 128-130) and is
\* answered with a `connected` dict, and any other status falls through both
\* branches, changes nothing and leaves the caller with None
ConnectReturns(status, reason, phone, client) ==
    /\ conn_result' = [ n |-> conn_result.n + 1, status |-> status,
                        reason |-> reason, phone_number |-> phone,
                        client |-> IF ~client THEN "n/a"
                                   ELSE IF status = "connected" THEN "connected"
                                   ELSE "None" ]
    /\ IF client /\ status = "connected"
       THEN is_connected' = TRUE /\ phone_number' = phone
       ELSE UNCHANGED <<is_connected, phone_number>>

\* connect(session_id) up to its first suspension: the stored-session path of
\* _initialize_connection returns at once (with the AttributeError of
\* auth_data.get caught by connect() when the loaded data is no dict),
\* otherwise the coroutine goes to sleep in _wait_for_authentication
Connect(s, client) ==
    /\ polling = NoPoll
    /\ conn_result.n < MaxConnects
    /\ session_id' = s
    /\ UNCHANGED <<pairVars, callVars, groupVars, session_file, session_store, forwarded>>
    /\ IF HasValidSession(s)
       THEN /\ auth_state' = session_store[s]
            /\ is_authenticated' = TRUE
            /\ UNCHANGED polling
            /\ IF IsDict(session_store[s])
               THEN ConnectReturns("connected", "", session_store[s].phone_number, client)
               ELSE ConnectReturns("error", "object has no attribute 'get'", NoPhone, client)
       ELSE /\ polling' = [ elapsed |-> 0, client |-> client, qr |-> QrData(s),
                            disconnected |-> FALSE ]
            /\ UNCHANGED <<auth_state, is_authenticated, conn_result,
                           is_connected, phone_number>>

\* ConnectionManager.connect called directly
ManagerConnect(s) == Connect(s, FALSE)

\* BaileysClient.connect
ClientConnect == Connect(ClientSession, TRUE)

\* _save_auth_data: the file of the current self.session_id is overwritten
Saved(files, s, phone) == (s :> AuthData(phone, s)) @@ files

\* a sleep that takes no time
WokeAtOnce(elapsed) == elapsed

\* time.time() - start_time after the asyncio.sleep(2) of one turn
Woke(elapsed) == elapsed + PollInterval

\* the dict that _check_auth_status returns
NoError == "None"
CheckAuthStatus(a) ==
    CASE a = "pending"       -> [ authenticated |-> FALSE, error |-> NoError ]
      [] a = "authenticated" -> [ authenticated |-> TRUE,  error |-> NoError ]
      [] a = "error"         -> [ authenticated |-> FALSE, error |-> "backend error" ]

\* an except clause that catches nothing
CaughtNever(a) == FALSE

\* `except Exception` of the polling loop, line 206
Caught(a) == a = "raises"

\* one turn of the loop of _wait_for_authentication, from the wake-up after
\* asyncio.sleep(2) to the next sleep or to the return of connect(); `a` is
\* the answer of the status query, `saved` whether the session file can be
\* written. An exception that the loop did not catch would end connect() in
\* the except clause of _handle_authentication (lines 137-139).
Poll(a, saved) ==
    /\ polling # NoPoll
    /\ UNCHANGED <<pairVars, callVars, groupVars, session_file, session_id, is_authenticated, auth_state, forwarded>>
    /\ LET woke == Woke(polling.elapsed)
           next == IF a = "raises" THEN woke + RetryPause ELSE woke
           auth_status == CheckAuthStatus(a)
       IN  CASE a = "raises" /\ ~Caught(a) ->
                  /\ polling' = NoPoll
                  /\ UNCHANGED session_store
                  /\ ConnectReturns("error", "status check raised", NoPhone, polling.client)
             [] a # "raises" /\ auth_status.authenticated ->
                  /\ polling' = NoPoll
                  /\ IF saved
                     THEN /\ session_store' = Saved(session_store, session_id, ScannedPhone)
                          /\ ConnectReturns("connected", "", ScannedPhone, polling.client)
                     ELSE /\ UNCHANGED session_store
                          /\ ConnectReturns("error", "save failed", NoPhone, polling.client)
             [] a # "raises" /\ ~auth_status.authenticated /\ auth_status.error # NoError ->
                  /\ polling' = NoPoll
                  /\ UNCHANGED session_store
                  /\ ConnectReturns("auth_failed", auth_status.error, NoPhone, polling.client)
             [] OTHER ->
                  /\ UNCHANGED session_store
                  /\ IF next < QrTimeout
                     THEN /\ polling' = [polling EXCEPT !.elapsed = next]
                          /\ UNCHANGED <<conn_result, is_connected, phone_number>>
                     ELSE /\ polling' = NoPoll
                          /\ ConnectReturns("auth_failed", "Authentication timeout",
                                            NoPhone, polling.client)

\* the body of ConnectionManager.disconnect over the transport handle `ws`:
\* a close() that raises skips the reset of lines 303-304 and is logged;
\* a connect() that is polling is left as it is
ManagerDisconnects(ws) ==
    /\ IF ws = "close_fails"
       THEN UNCHANGED <<is_authenticated, auth_state>>
       ELSE is_authenticated' = FALSE /\ auth_state' = EmptyState
    /\ polling' = IF polling = NoPoll THEN polling
                  ELSE [polling EXCEPT !.disconnected = TRUE]

\* ConnectionManager.disconnect
Disconnect(ws) ==
    /\ ManagerDisconnects(ws)
    /\ UNCHANGED <<pairVars, callVars, groupVars, session_file, session_id, session_store, conn_result,
                   forwarded, is_connected, phone_number>>

\* BaileysClient.disconnect
ClientDisconnect(ws) ==
    /\ UNCHANGED <<pairVars, callVars, groupVars, session_file, session_id, session_store, conn_result, forwarded>>
    /\ IF is_connected
       THEN /\ ManagerDisconnects(ws)
            /\ is_connected' = FALSE
            /\ phone_number' = NoPhone
       ELSE UNCHANGED <<is_authenticated, auth_state, polling, is_connected, phone_number>>

\* ConnectionManager.send_message: the payload goes to
\* _communicate_with_backend, whatever the state of the manager
SendMessage ==
    /\ forwarded < MaxForwarded
    /\ forwarded' = forwarded + 1
    /\ UNCHANGED <<pairVars, callVars, groupVars, session_file, session_id, is_authenticated, auth_state, session_store,
                   polling, conn_result, is_connected, phone_number>>

\* BaileysClient.send_message: ConnectionError unless is_connected, else
\* MessageHandler.send_text_message calls ConnectionManager.send_message once
ClientSendMessage ==
    /\ UNCHANGED <<pairVars, callVars, groupVars, session_file, session_id, is_authenticated, auth_state, session_store,
                   polling, conn_result, is_connected, phone_number>>
    /\ IF ~is_connected
       THEN UNCHANGED forwarded
       ELSE forwarded < MaxForwarded /\ forwarded' = forwarded + 1

ConnInit ==
    /\ PairingFresh
    /\ \E files \in StoredFiles : ConnectionFresh(files)
    /\ CallsFresh
    /\ GroupsFresh

\* BaileysClient.save_session: session.json gets the client's fields
SaveSession ==
    /\ session_file' = [ phone_number |-> phone_number, is_connected |-> is_connected ]
    /\ UNCHANGED <<pairVars, callVars, groupVars, session_id, is_authenticated,
                   auth_state, session_store, polling, conn_result, forwarded,
                   is_connected, phone_number>>

\* BaileysClient.load_session: the fields are taken from session.json as
\* they are; without the file the open raises and nothing is assigned
LoadSession ==
    /\ IF session_file = NoFile
       THEN UNCHANGED <<is_connected, phone_number>>
       ELSE /\ phone_number' = session_file.phone_number
            /\ is_connected' = session_file.is_connected
    /\ UNCHANGED <<pairVars, callVars, groupVars, session_file, session_id,
                   is_authenticated, auth_state, session_store, polling,
                   conn_result, forwarded>>

\* the backend answers the status queries as its contract allows
ConnNext ==
    \/ \E s \in Sessions : ManagerConnect(s)
    \/ ClientConnect
    \/ \E a \in BackendAnswers, saved \in BOOLEAN : Poll(a, saved)
    \/ \E ws \in TransportHandles : Disconnect(ws)
    \/ \E ws \in TransportHandles : ClientDisconnect(ws)
    \/ SendMessage
    \/ ClientSendMessage

ConnSpec == ConnInit /\ [][ConnNext]_vars

\* a program that uses the BaileysClient only: connect, disconnect (which
\* is also the exit of `async with`), save_session and load_session
ClientNext ==
    \/ ClientConnect
    \/ \E a \in BackendAnswers, saved \in BOOLEAN : Poll(a, saved)
    \/ \E ws \in TransportHandles : ClientDisconnect(ws)
    \/ SaveSession
    \/ LoadSession

ClientSpec == ConnInit /\ [][ClientNext]_vars

\* the event loop resumes a connect() that sleeps in asyncio.sleep once the
\* timer has fired: a turn of the polling loop that stays possible is taken
PollTurn == \E a \in BackendAnswers, saved \in BOOLEAN : Poll(a, saved)

ConnFairSpec == ConnSpec /\ WF_vars(PollTurn)

----------------------------------------------------------------------------
(* CallManager.  One caller awaits each operation before the next, so an    *)
(* operation is one step, its send included; `sent` is whether              *)
(* client.send_message returned (it raises otherwise, before any update).   *)
(* The clock `now` stands for datetime.now(), in whole seconds; the keys    *)
(* jid, call_type, rejected_at, rejection_reason and muted of a call record *)
(* are left out.                                                            *)

AnswerDelay == 5        \* seconds from the start of a call to its answer
TalkTime == 30          \* seconds from the answer to the end of the call

CallTimes == {0, AnswerDelay, AnswerDelay + TalkTime}

\* call ids: f"call_{int(loop.time())}" of an offer, call_data['call_id'] of
\* an incoming call; two offers within one second get the same id
CallIds == {"call_1", "call_2"}

EventTypes == {"call_accepted", "call_rejected", "call_ended", "call_ringing"}

\* the record that offer_call and handle_incoming_call store
NewCall(status) ==
    [ status      |-> status,
      start_time  |-> now,
      answered_at |-> NoTime,
      ended_at    |-> NoTime,
      duration    |-> NoTime ]

Tracked(id) == id \in DOMAIN active_calls

\* offer_call, for a valid JID
OfferCall(id, sent) ==
    /\ UNCHANGED <<pairVars, connVars, groupVars, is_call_active>>
    /\ IF sent
       THEN active_calls' = (id :> NewCall("initiating")) @@ active_calls
       ELSE UNCHANGED active_calls

\* handle_incoming_call
HandleIncomingCall(id) ==
    /\ UNCHANGED <<pairVars, connVars, groupVars, is_call_active>>
    /\ active_calls' = (id :> NewCall("incoming")) @@ active_calls

\* lines 122-124 and 437-439
Answered(call) == [call EXCEPT !.status = "in_progress", !.answered_at = now]

\* lines 171-173 and 442-443
Rejected(call) == [call EXCEPT !.status = "rejected"]

\* the start of the duration that end_call takes, whether answered or not
EndCallStart(call) == call.start_time

\* the start of the duration that a call_ended event takes
EventStart(call) ==
    IF call.answered_at # NoTime THEN call.answered_at ELSE call.start_time

\* lines 219-227 and 446-457: int((end_time - start_time).total_seconds())
Ended(call, start) ==
    [call EXCEPT !.status = "ended", !.ended_at = now, !.duration = now - start]

\* accept_call: ValueError for an unknown id
AcceptCall(id, sent) ==
    /\ UNCHANGED <<pairVars, connVars, groupVars>>
    /\ IF Tracked(id) /\ sent
       THEN /\ active_calls' = [active_calls EXCEPT ![id] = Answered(@)]
            /\ is_call_active' = TRUE
       ELSE UNCHANGED callVars

\* reject_call
RejectCall(id, sent) ==
    /\ UNCHANGED <<pairVars, connVars, groupVars, is_call_active>>
    /\ IF Tracked(id) /\ sent
       THEN active_calls' = [active_calls EXCEPT ![id] = Rejected(@)]
       ELSE UNCHANGED active_calls

\* an end_call that updates the record before it sends
EndCallUpdatesFirst(id, sent) ==
    /\ UNCHANGED <<pairVars, connVars, groupVars>>
    /\ IF id \in DOMAIN active_calls
       THEN /\ active_calls' = [active_calls EXCEPT ![id] = Ended(@, EndCallStart(@))]
            /\ is_call_active' = FALSE
       ELSE UNCHANGED callVars

\* end_call
EndCall(id, sent) ==
    /\ UNCHANGED <<pairVars, connVars, groupVars>>
    /\ IF Tracked(id) /\ sent
       THEN /\ active_calls' = [active_calls EXCEPT ![id] = Ended(@, EndCallStart(@))]
            /\ is_call_active' = FALSE
       ELSE UNCHANGED callVars

\* handle_call_event: an event for an untracked call, or of another type,
\* only reaches the handlers
HandleCallEvent(event_type, id) ==
    /\ UNCHANGED <<pairVars, connVars, groupVars>>
    /\ CASE Tracked(id) /\ event_type = "call_accepted" ->
              /\ active_calls' = [active_calls EXCEPT ![id] = Answered(@)]
              /\ is_call_active' = TRUE
         [] Tracked(id) /\ event_type = "call_rejected" ->
              /\ active_calls' = [active_calls EXCEPT ![id] = Rejected(@)]
              /\ UNCHANGED is_call_active
         [] Tracked(id) /\ event_type = "call_ended" ->
              /\ active_calls' = [active_calls EXCEPT ![id] = Ended(@, EventStart(@))]
              /\ is_call_active' = FALSE
         [] OTHER -> UNCHANGED callVars

\* clear_call_history
ClearCallHistory ==
    /\ active_calls' = NoCalls
    /\ is_call_active' = FALSE
    /\ UNCHANGED <<pairVars, connVars, groupVars>>

\* is_any_call_active
IsAnyCallActive == is_call_active

\* time passes
CallTick(t) ==
    /\ t > now
    /\ now' = t
    /\ UNCHANGED <<pairing_codes, active_pairings, is_pairing_active, calls, issued,
                   connVars, callVars, groupVars>>

CallInit ==
    /\ PairingFresh
    /\ ConnectionFresh(NoFiles)
    /\ CallsFresh
    /\ GroupsFresh

CallNext ==
    \/ \E id \in CallIds, sent \in BOOLEAN : OfferCall(id, sent)
    \/ \E id \in CallIds : HandleIncomingCall(id)
    \/ \E id \in CallIds, sent \in BOOLEAN : AcceptCall(id, sent)
    \/ \E id \in CallIds, sent \in BOOLEAN : RejectCall(id, sent)
    \/ \E id \in CallIds, sent \in BOOLEAN : EndCall(id, sent)
    \/ \E event_type \in EventTypes, id \in CallIds : HandleCallEvent(event_type, id)
    \/ ClearCallHistory
    \/ \E t \in CallTimes : CallTick(t)

CallSpec == CallInit /\ [][CallNext]_vars

----------------------------------------------------------------------------
(* GroupManager.  As for the CallManager an operation is one step, its send *)
(* included: the checks before the await read the arguments only, and the   *)
(* cache is updated after the await without another await.  A JID is the    *)
(* sequence of its parts; the keys name, owner, description, announce and   *)
(* created_at of a group record are left out.                               *)

JidA == <<"15550001", "@", "s.", "whatsapp.net">>
JidB == <<"15550002", "@", "s.", "whatsapp.net">>
JidC == <<"15550003", "@", "s.", "whatsapp.net">>
JidNoDomain == <<"15550004", "@", "example.org">>

\* lines 56 and 188: '@' not in participant or 'whatsapp.net' not in participant
ValidJid(jid) ==
    /\ \E i \in DOMAIN jid : jid[i] = "@"
    /\ \E i \in DOMAIN jid : jid[i] = "whatsapp.net"

\* the lists of participants that the callers pass
ParticipantLists ==
    { << >>, <<JidA>>, <<JidB>>, <<JidC>>, <<JidA, JidB>>, <<JidB, JidC>>,
      <<JidA, JidA>>, <<JidB, JidNoDomain>> }

\* group ids: f"{int(loop.time())}@g.us", so two groups created or joined
\* within one second get the same id
GroupIds == {"1@g.us", "2@g.us"}

Members(participants) == { participants[i] : i \in DOMAIN participants }

\* len(...) of lines 90, 207 and 256
MemberCount(participants) == Len(participants)

\* lines 83-91
NewGroup(participants) ==
    [ participants |-> participants, member_count |-> MemberCount(participants) ]

\* lines 590-598
JoinedGroup == [ participants |-> << >>, member_count |-> 0 ]

\* lines 48-57: the checks of create_group
CreateCheck(participants) ==
    IF Len(participants) < 1 \/ Len(participants) > 1024
    THEN "ValueError"
    ELSE IF \E i \in DOMAIN participants : ~ValidJid(participants[i])
    THEN "ValueError"
    ELSE "await"

CreateGroup(id, participants, sent) ==
    /\ UNCHANGED <<pairVars, connVars, callVars>>
    /\ IF CreateCheck(participants) = "await" /\ sent
       THEN group_cache' = (id :> NewGroup(participants)) @@ group_cache
       ELSE UNCHANGED group_cache

\* join_group
JoinGroup(id, sent) ==
    /\ UNCHANGED <<pairVars, connVars, callVars>>
    /\ IF sent
       THEN group_cache' = (id :> JoinedGroup) @@ group_cache
       ELSE UNCHANGED group_cache

\* an addition that appends the new participants to the list
AddedAppended(current, participants) == { current \o participants }

\* line 206: list(set(current_participants + participants)), in any of the
\* orders in which the set may be iterated
Added(current, participants) ==
    LET all == Members(current \o participants)
    IN  { list \in [1..Cardinality(all) -> all] : Members(list) = all }

\* lines 253-255: [p for p in current_participants if p not in participants]
Removed(current, participants) ==
    SelectSeq(current, LAMBDA p : p \notin Members(participants))

\* lines 182-189: the checks of add_participants
AddCheck(participants) ==
    IF participants = << >>
    THEN "ValueError"
    ELSE IF \E i \in DOMAIN participants : ~ValidJid(participants[i])
    THEN "ValueError"
    ELSE "await"

\* add_participants; a group that is not cached is left to the backend
AddParticipants(id, participants, sent) ==
    /\ UNCHANGED <<pairVars, connVars, callVars>>
    /\ IF AddCheck(participants) = "await" /\ sent /\ id \in DOMAIN group_cache
       THEN \E list \in Added(group_cache[id].participants, participants) :
               group_cache' = [group_cache EXCEPT
                                  ![id] = [ participants |-> list,
                                            member_count |-> MemberCount(list) ]]
       ELSE UNCHANGED group_cache

\* remove_participants: only an empty list is refused
RemoveParticipants(id, participants, sent) ==
    /\ UNCHANGED <<pairVars, connVars, callVars>>
    /\ IF participants # << >> /\ sent /\ id \in DOMAIN group_cache
       THEN LET list == Removed(group_cache[id].participants, participants)
            IN  group_cache' = [group_cache EXCEPT
                                   ![id] = [ participants |-> list,
                                             member_count |-> MemberCount(list) ]]
       ELSE UNCHANGED group_cache

GroupInit ==
    /\ PairingFresh
    /\ ConnectionFresh(NoFiles)
    /\ CallsFresh
    /\ GroupsFresh

GroupNext ==
    \/ \E id \in GroupIds, participants \in ParticipantLists, sent \in BOOLEAN :
          CreateGroup(id, participants, sent)
    \/ \E id \in GroupIds, sent \in BOOLEAN : JoinGroup(id, sent)
    \/ \E id \in GroupIds, participants \in ParticipantLists, sent \in BOOLEAN :
          AddParticipants(id, participants, sent)
    \/ \E id \in GroupIds, participants \in ParticipantLists, sent \in BOOLEAN :
          RemoveParticipants(id, participants, sent)

GroupSpec == GroupInit /\ [][GroupNext]_vars

----------------------------------------------------------------------------
Next ==
    \/ \E in \in RequestInputs : RequestPairingCode(in[1], in[2])
    \/ \E c \in BagToSet(calls) : RequestResume(c)
    \/ \E p \in IdInputs, code \in VerifyCodeInputs : VerifyPairingCode(p, code)
    \/ \E c \in BagToSet(calls) : VerifyResume(c)
    \/ \E p \in IdInputs : CompletePairing(p)
    \/ \E c \in BagToSet(calls) : CompleteResume(c)
    \/ \E p \in IdInputs : RevokePairing(p)
    \/ \E c \in BagToSet(calls) : RevokeResume(c)
    \/ \E c \in BagToSet(calls) : BackendFails(c)
    \/ \E p \in IdInputs : GetPairingStatus(p)
    \/ CleanupExpiredCodes
    \/ GetPairingStatistics
    \/ ResetPairingState
    \/ \E d \in {1, LongStep} : Tick(d)

Spec == Init /\ [][Next]_vars

\* One caller that awaits each call before it makes the next one: no call
\* starts while a coroutine is suspended.  Every behaviour of SeqSpec is a
\* behaviour of Spec.
Idle == calls = EmptyBag

SeqNext ==
    \/ Idle /\ \E in \in RequestInputs : RequestPairingCode(in[1], in[2])
    \/ \E c \in BagToSet(calls) : RequestResume(c)
    \/ Idle /\ \E p \in IdInputs, code \in VerifyCodeInputs : VerifyPairingCode(p, code)
    \/ \E c \in BagToSet(calls) : VerifyResume(c)
    \/ Idle /\ \E p \in IdInputs : CompletePairing(p)
    \/ \E c \in BagToSet(calls) : CompleteResume(c)
    \/ Idle /\ \E p \in IdInputs : RevokePairing(p)
    \/ \E c \in BagToSet(calls) : RevokeResume(c)
    \/ \E c \in BagToSet(calls) : BackendFails(c)
    \/ Idle /\ \E p \in IdInputs : GetPairingStatus(p)
    \/ Idle /\ CleanupExpiredCodes
    \/ Idle /\ GetPairingStatistics
    \/ Idle /\ ResetPairingState
    \/ \E d \in {1, LongStep} : Tick(d)

SeqSpec == Init /\ [][SeqNext]_vars

\* The single caller again, offering every custom code of CustomInputs.
CustomNext ==
    \/ Idle /\ \E in \in CustomInputs : RequestPairingCode(in[1], in[2])
    \/ \E c \in BagToSet(calls) : RequestResume(c)
    \/ Idle /\ \E p \in IdInputs, code \in VerifyCodeInputs : VerifyPairingCode(p, code)
    \/ \E c \in BagToSet(calls) : VerifyResume(c)
    \/ Idle /\ \E p \in IdInputs : CompletePairing(p)
    \/ \E c \in BagToSet(calls) : CompleteResume(c)
    \/ Idle /\ \E p \in IdInputs : RevokePairing(p)
    \/ \E c \in BagToSet(calls) : RevokeResume(c)
    \/ \E c \in BagToSet(calls) : BackendFails(c)
    \/ Idle /\ \E p \in IdInputs : GetPairingStatus(p)
    \/ Idle /\ CleanupExpiredCodes
    \/ Idle /\ GetPairingStatistics
    \/ Idle /\ ResetPairingState
    \/ \E d \in {1, LongStep} : Tick(d)

CustomSpec == Init /\ [][CustomNext]_vars

\* A program that uses the three managers side by side, with one phone
\* number, one call and one group, all within one second: every send of a
\* pairing, call or participants operation may raise instead of returning.
AppNext ==
    \/ RequestPairingCode(NumA, CodeNone)
    \/ \E p \in IdInputs : VerifyPairingCode(p, CodeGenerated)
    \/ \E p \in IdInputs : CompletePairing(p)
    \/ \E p \in IdInputs : RevokePairing(p)
    \/ \E c \in BagToSet(calls) :
          RequestResume(c) \/ VerifyResume(c) \/ CompleteResume(c) \/ RevokeResume(c)
    \/ \E c \in BagToSet(calls) : BackendFails(c)
    \/ HandleIncomingCall("call_1")
    \/ \E sent \in BOOLEAN : AcceptCall("call_1", sent)
    \/ \E sent \in BOOLEAN : RejectCall("call_1", sent)
    \/ \E sent \in BOOLEAN : EndCall("call_1", sent)
    \/ CreateGroup("1@g.us", <<JidA, JidB>>, TRUE)
    \/ \E participants \in {<<JidB>>, <<JidC>>}, sent \in BOOLEAN :
          AddParticipants("1@g.us", participants, sent)
    \/ \E participants \in {<<JidB>>, <<JidC>>}, sent \in BOOLEAN :
          RemoveParticipants("1@g.us", participants, sent)

AppSpec == Init /\ [][AppNext]_vars

----------------------------------------------------------------------------
(* Properties *)

Suspensions == BagToSet(calls)
Status(p) == pairing_codes[p].status
IsReset == ResetPairingState
IsRequestResume == \E c \in Suspensions : RequestResume(c)

\* C1: revocation is terminal.  Once the status of a request is `revoked`, no
\* verify, complete, status read, cleanup or revoke step changes it; only the
\* full reset removes the record.
C1_RevokedIsTerminal ==
    [][ (~IsReset /\ ~IsRequestResume)
           => \A p \in KnownIds :
                 Status(p) = "revoked"
                    => p \in KnownIds' /\ pairing_codes'[p].status = "revoked" ]_vars

\* C2: a request whose status is `completed` leaves that status only through
\* revoke_pairing: no verify, status read or cleanup step moves it to
\* `verified` or `expired`.
C2_CompletedLeavesOnlyByRevoke ==
    [][ \A p \in KnownIds :
          (Status(p) = "completed" /\ p \in KnownIds'
              /\ pairing_codes'[p].status # "completed")
             => \/ \E c \in Suspensions : RevokeResume(c) /\ c.pairing_id = p
                \/ IsReset
                \/ IsRequestResume ]_vars

\* complete_pairing on a known id whose status is not `verified` raises
\* InvalidState
C3_RejectedUnlessVerified ==
    \A p \in KnownIds : Status(p) # "verified" => CompleteCheck(p) = "InvalidState"

\* a complete_pairing call that reaches the backend was made on a `verified`
\* request
C3_OnlyVerifiedReachesBackend ==
    \A p \in IdInputs :
       (CompletePairing(p) /\ calls' # calls) => p \in KnownIds /\ Status(p) = "verified"

\* a complete_pairing call that raises changes no state
C3_FailureChangesNothing ==
    \A p \in IdInputs :
       (CompletePairing(p) /\ CompleteCheck(p) \in {"NotFound", "InvalidState"})
          => UNCHANGED <<pairing_codes, active_pairings, is_pairing_active, calls>>

\* C3: for every known pairing id, complete_pairing raises InvalidState unless
\* the status is exactly `verified` (so only a call on a `verified` request
\* reaches the backend), and a complete_pairing that raises NotFound or
\* InvalidState leaves the registry and the ActivePairing map unchanged.
C3_CompleteRequiresVerified ==
    /\ []C3_RejectedUnlessVerified
    /\ [][C3_OnlyVerifiedReachesBackend /\ C3_FailureChangesNothing]_vars

\* a complete_pairing call on a verified request is at the backend while another
\* known request, not verified, is one that complete_pairing rejects
C3_Witness ==
    /\ \E c \in Suspensions :
          c.op = "complete" /\ c.pairing_id \in KnownIds /\ Status(c.pairing_id) = "verified"
    /\ \E p \in KnownIds : Status(p) = "requested" /\ CompleteCheck(p) = "InvalidState"

\* C4: complete_pairing never succeeds, and never creates an ActivePairing, for
\* a request whose expires_at had already passed when the call was made.
C4_NoCompletionAfterExpiry ==
    [][ \A c \in Suspensions :
          (CompleteResume(c) /\ ResumeResult(c) = "ok")
             => c.called_at <= pairing_codes[c.pairing_id].expires_at ]_vars

\* C5: round trip.  For every (pairing_id, pairing_code) a request returned,
\* verify_pairing_code with that code, issued before expires_at while the
\* registry still holds the id, passes every check of verify_pairing_code.
C5_RoundTrip ==
    \A i \in DOMAIN issued :
       (now <= issued[i].expires_at /\ issued[i].pairing_id \in KnownIds)
          => VerifyCheck(issued[i].pairing_id, issued[i].pairing_code) = "await"

\* C6: every successful request stores its record under an id that no record
\* of the registry has, so the registry grows by exactly one record.
C6_FreshPairingId ==
    [][ \A c \in Suspensions :
          RequestResume(c)
             => /\ NewPairingId(now) \notin KnownIds
                /\ Cardinality(KnownIds') = Cardinality(KnownIds) + 1 ]_vars

\* C7: two verify_pairing_code calls with the correct code on one request do
\* not both succeed: a verification succeeds only on a request that no earlier
\* verification has stamped.
C7_SingleVerification ==
    [][ \A c \in Suspensions :
          (VerifyResume(c) /\ ResumeResult(c) = "ok")
             => pairing_codes[c.pairing_id].verified_at = NoTime ]_vars

EntriesOf(p) == {d \in DOMAIN active_pairings : active_pairings[d].pairing_id = p}

\* every request that has reached `completed` has exactly one entry, and no
\* two entries name the same pairing_id
C8_OneEntryPerCompleted ==
    /\ \A p \in KnownIds :
          pairing_codes[p].completed_at # NoTime => Cardinality(EntriesOf(p)) = 1
    /\ \A d, e \in DOMAIN active_pairings :
          active_pairings[d].pairing_id = active_pairings[e].pairing_id => d = e

\* an entry appears only in a step that brings its pairing_id to `completed`
C8_EntryOnlyOnCompletion ==
    \A d \in (DOMAIN active_pairings') \ (DOMAIN active_pairings) :
       /\ active_pairings'[d].pairing_id \in KnownIds'
       /\ pairing_codes'[active_pairings'[d].pairing_id].status = "completed"

\* C8: ActivePairing entries are one-to-one with completed requests: every
\* request that has reached `completed` has exactly one entry, no two entries
\* name the same pairing_id, and an entry appears only in a step that brings
\* its pairing_id to `completed`.
C8_OneToOne ==
    /\ []C8_OneEntryPerCompleted
    /\ [][C8_EntryOnlyOnCompletion]_vars

\* C9: a successful complete_pairing(id) on a verified request leaves the
\* request `completed` with completed_at and auth_tokens set, and the
\* ActivePairing map holds, under the returned device id, an entry for id with
\* the request's number and the returned auth token.
C9_CompletionEffect ==
    [][ \A c \in Suspensions :
          (CompleteResume(c) /\ ResumeResult(c) = "ok"
              /\ Status(c.pairing_id) = "verified")
             => LET id == c.pairing_id
                    returned == AuthTokens(c.number, now)
                    rec == pairing_codes'[id]
                IN  /\ rec.status = "completed"
                    /\ rec.completed_at # NoTime
                    /\ rec.auth_tokens = <<returned>>
                    /\ returned.device_id \in DOMAIN active_pairings'
                    /\ active_pairings'[returned.device_id].pairing_id = id
                    /\ active_pairings'[returned.device_id].phone_number = rec.number
                    /\ active_pairings'[returned.device_id].auth_token = returned.auth_token
      ]_vars

Live(p) == Status(p) \in {"requested", "verified"}

\* what a status read reports
C10_ReadReports ==
    \A p \in KnownIds :
       StatusOnRead(pairing_codes[p], now) =
          IF Live(p) /\ now > pairing_codes[p].expires_at THEN "expired" ELSE Status(p)

\* what a status read stores
C10_ReadStores ==
    \A p \in KnownIds :
       GetPairingStatus(p)
          => IF Live(p) /\ now > pairing_codes[p].expires_at
             THEN pairing_codes' = [pairing_codes EXCEPT ![p].status = "expired"]
             ELSE UNCHANGED pairing_codes

\* C10: lazy expiry on read.  A status read of a `requested` or `verified`
\* request whose expires_at has passed reports `expired` and stores it; a read
\* of a request in any other status, or not after expires_at, reports the
\* stored status and changes nothing.
C10_LazyExpiryOnRead ==
    /\ []C10_ReadReports
    /\ [][C10_ReadStores]_vars

\* a request past its expires_at that is still stored as `verified`: the next
\* status read is the one that flips it
C10_Witness ==
    \E p \in KnownIds :
       /\ Status(p) = "verified"
       /\ now > pairing_codes[p].expires_at
       /\ StatusOnRead(pairing_codes[p], now) = "expired"

\* the validity of a code as the specification words it: after stripping
\* hyphens and upper-casing, at least MinCodeLen characters, all of them A-F
HasBadChar(code) ==
    \E i \in 1..Len(NormalizeCode(code)) : NormalizeCode(code)[i] \notin ValidChars
WellFormedCode(code) == Len(NormalizeCode(code)) >= MinCodeLen /\ ~HasBadChar(code)

Fresh(p) == Status(p) = "requested" /\ ~HasExpired(pairing_codes[p], now)

\* on an unexpired `requested` request a code with a character outside A-F is
\* refused as InvalidPairingCode, a well-formed code that differs from the
\* stored one as Mismatch
C11_FailureKind ==
    \A p \in KnownIds, code \in VerifyCodeInputs :
       Fresh(p)
          => /\ HasBadChar(code) => VerifyCheck(p, code) = "InvalidPairingCode"
             /\ (WellFormedCode(code)
                   /\ NormalizeCode(code) # NormalizeCode(pairing_codes[p].code))
                  => VerifyCheck(p, code) = "Mismatch"

\* such a refused call sends nothing and changes no record
C11_FailureChangesNothing ==
    \A p \in KnownIds, code \in VerifyCodeInputs :
       (Fresh(p) /\ VerifyPairingCode(p, code)
           /\ VerifyCheck(p, code) \in {"InvalidPairingCode", "Mismatch"})
          => UNCHANGED <<pairing_codes, active_pairings, is_pairing_active, calls>>

\* C11: a failed verify_pairing_code on an unexpired `requested` request leaves
\* the status at `requested` and sends nothing to the backend: a code with a
\* character outside A-F fails with InvalidPairingCode, a well-formed code
\* different from the stored one with Mismatch, and no field of the record
\* changes.
C11_FailedVerifyChangesNothing ==
    /\ []C11_FailureKind
    /\ [][C11_FailureChangesNothing]_vars

\* an unexpired `requested` request on which one offered code is refused for a
\* character and another, well formed, for differing from the stored code
C11_Witness ==
    \E p \in KnownIds :
       /\ Fresh(p)
       /\ VerifyCheck(p, CodeBadChar) = "InvalidPairingCode"
       /\ \E code \in VerifyCodeInputs :
             WellFormedCode(code) /\ VerifyCheck(p, code) = "Mismatch"

\* C12: the validation that request_pairing_code (custom code) and
\* verify_pairing_code share accepts a code if and only if, after stripping
\* hyphens and upper-casing, every character is in A-F and at least MinCodeLen
\* characters remain; every other code is refused as InvalidPairingCode, by
\* verify on an unexpired request and by request for a valid number.
C12_ValidationIsWellFormedness ==
    /\ \A p \in KnownIds, code \in VerifyCodeInputs :
          ~HasExpired(pairing_codes[p], now)
             => (VerifyCheck(p, code) = "InvalidPairingCode" <=> ~WellFormedCode(code))
    /\ \A in \in CustomInputs :
          RequestCheck(in[1], in[2]) = "InvalidPairingCode" => ~WellFormedCode(in[2])
    /\ \A i \in DOMAIN issued : WellFormedCode(issued[i].pairing_code)

\* every known id passes the checks of revoke_pairing whatever its status, and
\* an unknown id is refused as NotFound
C13_NeverRefusesKnownId ==
    /\ \A p \in KnownIds : RevokeCheck(p) = "await"
    /\ RevokeCheck(UnknownId) = "NotFound"

\* a revocation that the backend answered leaves the request `revoked`,
\* whatever its status was, and a call on an unknown id changes nothing
C13_RevokeLeavesRevoked ==
    /\ \A c \in Suspensions :
          RevokeResume(c)
             => /\ ResumeResult(c) = "ok"
                /\ pairing_codes'[c.pairing_id].status = "revoked"
    /\ RevokePairing(UnknownId) => UNCHANGED vars

\* C13: revoke_pairing is idempotent: called twice on the same known id it
\* leaves the status `revoked` after each call and the second call does not
\* raise; on an unknown id it fails with NotFound and changes nothing.
C13_RevokeIdempotent ==
    /\ []C13_NeverRefusesKnownId
    /\ [][C13_RevokeLeavesRevoked]_vars

\* a second revoke_pairing call, made on a request that is already `revoked`,
\* has passed its checks and waits for the backend
C13_Witness ==
    \E c \in Suspensions :
       /\ c.op = "revoke"
       /\ c.pairing_id \in KnownIds
       /\ Status(c.pairing_id) = "revoked"
       /\ pairing_codes[c.pairing_id].revoked_at # NoTime

Overdue(p) == Live(p) /\ now > pairing_codes[p].expires_at

\* the sweep turns an overdue record to `expired`, touches no other field and
\* no other record, and sweeping a swept record changes nothing
C14_SweepTarget ==
    \A p \in KnownIds :
       LET rec == pairing_codes[p]
           swept == Swept(rec, now)
       IN  /\ swept.status = (IF Overdue(p) THEN "expired" ELSE rec.status)
           /\ [swept EXCEPT !.status = rec.status] = rec
           /\ Swept(swept, now) = swept

\* a cleanup step stores the swept records and nothing else
C14_CleanupEffect ==
    CleanupExpiredCodes
       => /\ KnownIds' = KnownIds
          /\ \A p \in KnownIds :
                /\ pairing_codes'[p].status = (IF Overdue(p) THEN "expired" ELSE Status(p))
                /\ [pairing_codes'[p] EXCEPT !.status = Status(p)] = pairing_codes[p]
          /\ UNCHANGED <<active_pairings, is_pairing_active, calls>>

\* C14: cleanup_expired_codes flips to `expired` exactly the requests that are
\* `requested` or `verified` with expires_at in the past, leaves every other
\* request, every other field and the ActivePairing map unchanged, and is
\* idempotent: a second run at the same time changes nothing.
C14_CleanupFlipsOverdueOnly ==
    /\ []C14_SweepTarget
    /\ [][C14_CleanupEffect]_vars

\* a `verified` request past its expires_at, which the sweep flips, next to a
\* `requested` one that is not yet due, which the sweep leaves alone
C14_Witness ==
    \E p, q \in KnownIds :
       /\ Status(p) = "verified" /\ Overdue(p)
       /\ Swept(pairing_codes[p], now).status = "expired"
       /\ Status(q) = "requested" /\ ~Overdue(q)
       /\ Swept(pairing_codes[q], now) = pairing_codes[q]

\* the call is possible in every state and what it returns counts the records
C15_CountsAreExact ==
    /\ ENABLED GetPairingStatistics
    /\ Statistics.total_requests = Cardinality(DOMAIN pairing_codes)
    /\ Statistics.completed_requests =
          Cardinality({p \in KnownIds : Status(p) = "completed"})
    /\ Statistics.expired_requests =
          Cardinality({p \in KnownIds : Status(p) = "expired"})
    /\ Statistics.active_pairings = Cardinality(DOMAIN active_pairings)

\* C15: get_pairing_statistics never fails and never modifies the registry;
\* in every reachable state each count it returns for a status is the number
\* of requests in that status, its total is the number of records and its
\* active-pairing count is the size of the ActivePairing map.
C15_StatisticsAreExact ==
    /\ []C15_CountsAreExact
    /\ [][GetPairingStatistics => UNCHANGED vars]_vars

\* two records, one of them completed with its ActivePairing entry: the
\* counts differ from one another
C15_Witness ==
    /\ Statistics.total_requests = 2
    /\ Statistics.completed_requests = 1
    /\ Statistics.expired_requests = 0
    /\ Statistics.active_pairings = 1

\* C16: request_pairing_code with a number of fewer than MinDigits digits, or
\* with a custom code that is not well formed, fails before anything is sent
\* to the backend and without creating or changing a record.
C16_InvalidRequestSendsNothing ==
    [][ \A in \in CustomInputs :
          (RequestPairingCode(in[1], in[2])
              /\ \/ Len(CleanNumber(in[1])) < MinDigits
                 \/ in[2] # CodeNone /\ ~WellFormedCode(in[2]))
             => UNCHANGED <<pairing_codes, calls>> ]_vars

\* C17: once a record exists, its pairing_id, number, code and expires_at
\* never change and no request, verify, complete, revoke, status-read or
\* cleanup step removes or replaces it; only the full reset deletes records.
C17_RecordsAreStable ==
    [][ ~IsReset
          => \A p \in KnownIds :
                /\ p \in KnownIds'
                /\ pairing_codes'[p].pairing_id = pairing_codes[p].pairing_id
                /\ pairing_codes'[p].number = pairing_codes[p].number
                /\ pairing_codes'[p].code = pairing_codes[p].code
                /\ pairing_codes'[p].expires_at = pairing_codes[p].expires_at ]_vars

\* the state of the Connection Lifecycle
Lifecycle ==
    IF is_authenticated THEN "authenticated"
    ELSE IF polling # NoPoll THEN "awaiting_authentication"
    ELSE "disconnected"

ConnectReturned == conn_result'.n # conn_result.n

\* C18: whenever connect() returns `connected`, by the stored-session path or
\* after the backend reported authenticated during polling, the manager is
\* authenticated (is_authenticated true, auth_state holding the session) and
\* a valid session record for the session id is in the session store.
C18_ConnectedMeansAuthenticated ==
    [][ (ConnectReturned /\ conn_result'.status = "connected")
           => /\ is_authenticated'
              /\ auth_state' # EmptyState
              /\ auth_state'.session_id = session_id'
              /\ session_id' \in DOMAIN session_store'
              /\ IsAuthDataValid(session_store'[session_id']) ]_vars

\* C19: whenever connect() ends without authenticating (auth_failed by an
\* explicit error, auth_failed by timeout, or error), the lifecycle is
\* `disconnected` afterwards, also when the manager was authenticated for
\* another session id before the call.
C19_FailedConnectMeansDisconnected ==
    [][ (ConnectReturned /\ conn_result'.status \in {"auth_failed", "error"})
           => Lifecycle' = "disconnected" ]_vars

\* C20: a payload is forwarded to the backend only while the lifecycle is
\* `authenticated`; in every other state send_message fails with NotConnected
\* and forwards nothing.
C20_ForwardOnlyWhenAuthenticated ==
    [][ forwarded' # forwarded => Lifecycle = "authenticated" ]_vars

\* a connect() that was polling returned in this step
PollingReturned == polling # NoPoll /\ ConnectReturned

TimeoutReason == "Authentication timeout"

\* C21: connect() always terminates. While awaiting authentication it polls
\* at a fixed interval (2 s, 3 s after a check that raised) and returns
\* `connected` when the backend reported authenticated (`error` if the
\* session file cannot be written then), `auth_failed` with the reported error,
\* or `auth_failed` with the timeout reason once qr_timeout has elapsed; a
\* backend that only ever answers "not yet", as the in-repo status check does,
\* never yields `connected` and ends in the timeout result.
C21_ConnectTerminates ==
    /\ (polling # NoPoll) ~> (polling = NoPoll)
    /\ [][ PollingReturned =>
             \/ conn_result'.status = "connected" /\ Poll("authenticated", TRUE)
             \/ conn_result'.status = "error" /\ Poll("authenticated", FALSE)
             \/ /\ conn_result'.status = "auth_failed"
                /\ conn_result'.reason = "backend error"
                /\ \E saved \in BOOLEAN : Poll("error", saved)
             \/ /\ conn_result'.status = "auth_failed"
                /\ conn_result'.reason = TimeoutReason
                /\ \/ /\ \E saved \in BOOLEAN : Poll("pending", saved)
                      /\ polling.elapsed + PollInterval >= QrTimeout
                   \/ /\ \E saved \in BOOLEAN : Poll("raises", saved)
                      /\ polling.elapsed + PollInterval + RetryPause >= QrTimeout ]_vars
    /\ [][ (polling # NoPoll /\ polling' # NoPoll /\ polling'.elapsed # polling.elapsed)
             => polling'.elapsed - polling.elapsed
                   \in {PollInterval, PollInterval + RetryPause} ]_vars
    /\ [][ (ConnectReturned /\ \E a \in StubAnswers, saved \in BOOLEAN : Poll(a, saved))
             => /\ conn_result'.status = "auth_failed"
                /\ conn_result'.reason = TimeoutReason ]_vars

C21_Witness ==
    /\ polling = NoPoll
    /\ conn_result.status = "auth_failed"
    /\ conn_result.reason = TimeoutReason
    /\ session_id \notin DOMAIN session_store

\* C22: disconnect() always leaves the in-memory authentication state
\* cleared (is_authenticated false, auth state empty), also when closing the
\* transport handle fails; a disconnect of a connected client is a disconnect
\* of its manager.
C22_DisconnectAlwaysClears ==
    [][ (\E ws \in TransportHandles :
            Disconnect(ws) \/ (is_connected /\ ClientDisconnect(ws)))
           => /\ ~is_authenticated'
              /\ auth_state' = EmptyState ]_vars

\* C23: whenever a connect() made through BaileysClient ends in auth_failed
\* or error, the caller of BaileysClient.connect receives that status, never
\* an empty result.
C23_FailureSurfacedAtClient ==
    [][ (ConnectReturned /\ conn_result'.client # "n/a"
           /\ conn_result'.status \in {"auth_failed", "error"})
           => conn_result'.client = conn_result'.status ]_vars

\* C24: once disconnect() has been invoked while connect() is polling, the
\* next turn of the poll ends the polling, and that connect() neither returns
\* `connected` nor writes a session.
C24_DisconnectCancelsPolling ==
    [][ (polling # NoPoll /\ polling.disconnected /\ PollTurn)
           => /\ polling' = NoPoll
              /\ session_store' = session_store
              /\ conn_result'.status # "connected" ]_vars

\* a status check raised during this connect(): only the pause after a raise
\* moves the elapsed time off the multiples of the polling interval
SurvivedRaise == polling # NoPoll /\ polling.elapsed % PollInterval # 0

HasRequiredFields(data) == IsDict(data) /\ RequiredFields \subseteq DOMAIN data

\* C26: connect(session_id) with a stored record that has phone_number,
\* session_id and auth_token returns in the same step with `connected` and
\* the stored phone_number, the manager authenticated, and no pairing
\* artifact generated and no status poll started.
C26_StoredSessionConnectsDirectly ==
    [][ \A s \in Sessions, client \in BOOLEAN :
          (Connect(s, client) /\ s \in DOMAIN session_store
             /\ HasRequiredFields(session_store[s]))
          => /\ ConnectReturned
             /\ conn_result'.status = "connected"
             /\ conn_result'.phone_number = session_store[s].phone_number
             /\ is_authenticated'
             /\ Lifecycle' = "authenticated"
             /\ polling' = NoPoll
             /\ polling'.qr = NoQr ]_vars

C26_Witness ==
    /\ conn_result.n = 1
    /\ conn_result.status = "connected"
    /\ conn_result.phone_number = StoredPhone
    /\ is_authenticated
    /\ auth_state = AuthData(StoredPhone, session_id)
    /\ polling = NoPoll

\* C27: connect(session_id) over an absent record, an unreadable record or a
\* record without the three required fields takes nothing from the store: it
\* does not return at once, leaves is_authenticated and the auth state as
\* they were, and starts polling (awaiting_authentication).
C27_InvalidRecordIsNotFound ==
    [][ \A s \in Sessions, client \in BOOLEAN :
          (Connect(s, client)
             /\ (s \in DOMAIN session_store => ~HasRequiredFields(session_store[s])))
          => /\ ~ConnectReturned
             /\ polling' # NoPoll
             /\ is_authenticated' = is_authenticated
             /\ auth_state' = auth_state ]_vars

\* C28: the record that a successful authentication saves for session_id is
\* valid for load and carries the returned phone_number; a valid record is
\* changed by no later step (disconnect included), and a connect(session_id)
\* over it returns `connected` with that phone_number in the same step,
\* without polling.
C28_SessionRoundTrip ==
    /\ [][ (PollingReturned /\ conn_result'.status = "connected")
             => /\ HasValidSession(session_id)'
                /\ HasRequiredFields(session_store'[session_id])
                /\ session_store'[session_id].phone_number = conn_result'.phone_number
                /\ session_store'[session_id].session_id = session_id ]_vars
    /\ [][ \A s \in Sessions :
             (s \in DOMAIN session_store /\ HasRequiredFields(session_store[s]))
             => /\ s \in DOMAIN session_store'
                /\ session_store'[s] = session_store[s] ]_vars
    /\ [][ \A s \in Sessions, client \in BOOLEAN :
             (Connect(s, client) /\ s \in DOMAIN session_store
                /\ session_store[s] = AuthData(ScannedPhone, s))
             => /\ ConnectReturned
                /\ conn_result'.status = "connected"
                /\ conn_result'.phone_number = ScannedPhone
                /\ polling' = NoPoll ]_vars

C28_Witness ==
    /\ conn_result.n = 2
    /\ conn_result.status = "connected"
    /\ conn_result.phone_number = ScannedPhone
    /\ auth_state = AuthData(ScannedPhone, session_id)
    /\ polling = NoPoll

\* the start that the duration of a call is to be counted from
DurationStart(call) ==
    IF call.answered_at # NoTime THEN call.answered_at ELSE call.start_time

\* C29: every call with status `ended` has a duration of ended_at minus
\* answered_at if it was answered and ended_at minus start_time otherwise,
\* whether end_call or a call_ended event ended it; a call started at T0,
\* answered at T0+5 and ended at T0+35 has duration 30.
C29_DurationFromAnswer ==
    \A id \in DOMAIN active_calls :
        active_calls[id].status = "ended"
        => active_calls[id].duration
              = active_calls[id].ended_at - DurationStart(active_calls[id])

\* C30: is_any_call_active() is true exactly when at least one tracked call
\* has status `in_progress`.
C30_ActiveIffInProgress ==
    IsAnyCallActive
       <=> \E id \in DOMAIN active_calls : active_calls[id].status = "in_progress"

----------------------------------------------------------------------------
(* the pairing flag and the map of active pairings *)

\* a completion whose backend call returned and whose request is still there
CompletedNow(c) == CompleteResume(c) /\ ResumeResult(c) = "ok"

\* C35: is_pairing_active is true exactly when the map of active pairings
\* is non-empty; a successful complete_pairing leaves the flag true, only a
\* successful complete_pairing raises it or adds to the map, and only the
\* full reset lowers the flag or takes an entry away, both together.
C35_FlagIffActivePairings ==
    /\ [](is_pairing_active <=> active_pairings # EmptyMap)
    /\ [][ /\ (\E c \in Suspensions : CompletedNow(c)) => is_pairing_active'
           /\ (~is_pairing_active /\ is_pairing_active')
                 => \E c \in Suspensions : CompletedNow(c)
           /\ (\E d \in DOMAIN active_pairings' : d \notin DOMAIN active_pairings)
                 => \E c \in Suspensions : CompletedNow(c)
           /\ (  \/ is_pairing_active /\ ~is_pairing_active'
                 \/ \E d \in DOMAIN active_pairings : d \notin DOMAIN active_pairings' )
                 => /\ ResetPairingState
                    /\ ~is_pairing_active'
                    /\ active_pairings' = EmptyMap ]_vars

\* a completed request with its active pairing, and a second request pending
C35_Witness ==
    /\ is_pairing_active
    /\ \E d \in DOMAIN active_pairings :
          /\ active_pairings[d].pairing_id \in KnownIds
          /\ pairing_codes[active_pairings[d].pairing_id].status = "completed"
    /\ \E p \in KnownIds : pairing_codes[p].status = "requested"

----------------------------------------------------------------------------
(* operations on one pairing_id *)

\* a step of verify_pairing_code, complete_pairing, revoke_pairing or
\* get_pairing_status on the id pid: the call up to its await or its error,
\* or its resumption with the answer or the exception of the backend;
\* verification is tried with the code that was issued and with a code that
\* fails validation
OnPairingId(pid) ==
    \/ GetPairingStatus(pid)
    \/ \E code \in {CodeGenerated, CodeShort} : VerifyPairingCode(pid, code)
    \/ CompletePairing(pid)
    \/ RevokePairing(pid)
    \/ \E c \in Suspensions :
          /\ c.op \in {"verify", "complete", "revoke"}
          /\ c.pairing_id = pid
          /\ VerifyResume(c) \/ CompleteResume(c) \/ RevokeResume(c) \/ BackendFails(c)

\* C37: a step of verify_pairing_code, complete_pairing, revoke_pairing or
\* of a status read on one pairing_id, successful or not, keeps every
\* request with another id as it was (a step that changes or removes the
\* request q is no step of these operations on another id); and an entry of
\* the map of active pairings is added or written only by a complete_pairing
\* that succeeds.
C37_OperationsAreLocal ==
    [][ /\ \A q \in KnownIds :
              (q \notin DOMAIN pairing_codes' \/ pairing_codes'[q] # pairing_codes[q])
              => \A pid \in IdInputs \ {q} : ~OnPairingId(pid)
        /\ (\E d \in DOMAIN active_pairings' :
               \/ d \notin DOMAIN active_pairings
               \/ active_pairings'[d] # active_pairings[d])
              => \E c \in Suspensions : CompletedNow(c) ]_vars

\* a status read finds its own request, and another request is overdue
\* with its expiry not yet stored
C37_Witness ==
    \E pid \in KnownIds, q \in KnownIds :
        /\ q # pid
        /\ ENABLED (GetPairingStatus(pid) /\ UNCHANGED pairing_codes)
        /\ pairing_codes[q].status \in {"requested", "verified"}
        /\ HasExpired(pairing_codes[q], now)
        /\ \E c \in Suspensions : c.op = "complete"

----------------------------------------------------------------------------
(* completing a request twice *)

\* C32: a request is completed at most once: a complete_pairing that
\* succeeds finds its request not completed before, with no auth_tokens
\* issued for it and no active pairing created for it, whether the other
\* complete_pairing was suspended at the backend call at the same time or
\* returned before a second verification.
C32_CompletedAtMostOnce ==
    [][ \A c \in Suspensions :
           CompletedNow(c)
           => /\ pairing_codes[c.pairing_id].completed_at = NoTime
              /\ pairing_codes[c.pairing_id].auth_tokens = NoTokens
              /\ \A d \in DOMAIN active_pairings :
                    active_pairings[d].pairing_id # c.pairing_id ]_vars

----------------------------------------------------------------------------
(* final call statuses *)

\* a step of accept_call, reject_call, end_call or of a call event
CallUpdate ==
    \/ \E id \in CallIds, sent \in BOOLEAN :
          AcceptCall(id, sent) \/ RejectCall(id, sent) \/ EndCall(id, sent)
    \/ \E event_type \in EventTypes, id \in CallIds : HandleCallEvent(event_type, id)

\* C36: the statuses `ended` and `rejected` are final: no accept_call,
\* reject_call, end_call or call event changes the status or the recorded
\* duration of a tracked call that is ended or rejected.
C36_EndedAndRejectedAreFinal ==
    [][ CallUpdate
        => \A id \in DOMAIN active_calls :
              active_calls[id].status \in {"ended", "rejected"}
              => /\ id \in DOMAIN active_calls'
                 /\ active_calls'[id].status = active_calls[id].status
                 /\ active_calls'[id].duration = active_calls[id].duration ]_vars

----------------------------------------------------------------------------
(* the client and the connection manager *)

\* C33: BaileysClient.is_connected is true only if the ConnectionManager is
\* authenticated, and BaileysClient.phone_number is set only while
\* is_connected is true, in every state that connect, disconnect (also as
\* the exit of the context manager), save_session and load_session reach.
C33_ClientAgreesWithManager ==
    /\ is_connected => is_authenticated
    /\ phone_number # NoPhone => is_connected

----------------------------------------------------------------------------
(* the cached groups *)

\* the number of places of the list at which jid stands
Occurrences(list, jid) == Cardinality({ i \in DOMAIN list : list[i] = jid })

\* C34: member_count of every cached group is the length of its cached
\* list of participants; an add_participants that updates a cached group
\* leaves each added JID in the list exactly once, together with all members
\* it had; a remove_participants leaves none of the removed JIDs in it.
C34_MemberCountIsLength ==
    /\ [](\A id \in DOMAIN group_cache :
             group_cache[id].member_count = Len(group_cache[id].participants))
    /\ [][ \A id \in DOMAIN group_cache, participants \in ParticipantLists :
             /\ AddParticipants(id, participants, TRUE)
                /\ AddCheck(participants) = "await"
                => /\ \A jid \in Members(participants) :
                         Occurrences(group_cache'[id].participants, jid) = 1
                   /\ Members(group_cache[id].participants)
                         \subseteq Members(group_cache'[id].participants)
             /\ RemoveParticipants(id, participants, TRUE)
                /\ participants # << >>
                => Members(group_cache'[id].participants)
                      \cap Members(participants) = {} ]_vars

\* a group created with one JID twice, and a group with two members
C34_Witness ==
    \E id \in DOMAIN group_cache, other \in DOMAIN group_cache :
        /\ group_cache[id].participants = <<JidA, JidA>>
        /\ group_cache[id].member_count = 2
        /\ Members(group_cache[other].participants) = {JidB, JidC}

----------------------------------------------------------------------------
(* transport errors *)

\* the pairing registry, the active pairings and the caches of the managers
Registries ==
    <<pairing_codes, active_pairings, is_pairing_active,
      active_calls, is_call_active, group_cache>>

\* the send of accept_call, reject_call, end_call, add_participants or
\* remove_participants raises
SendFails ==
    \/ \E id \in CallIds :
          AcceptCall(id, FALSE) \/ RejectCall(id, FALSE) \/ EndCall(id, FALSE)
    \/ \E id \in GroupIds, participants \in ParticipantLists :
          \/ AddParticipants(id, participants, FALSE)
          \/ RemoveParticipants(id, participants, FALSE)

\* C31: a transport error raised by the backend during request, verify,
\* complete or revoke of a pairing, during add or remove of participants or
\* during accept, reject or end of a call leaves the pairing registry, the
\* active pairings and the caches of calls and groups exactly as they were:
\* no such call has a successor state with another registry, and the step
\* at which the exception leaves a suspended pairing call changes nothing
\* but the set of suspended calls.
C31_TransportErrorChangesNothing ==
    /\ [](~ENABLED (SendFails /\ Registries' # Registries))
    /\ [][ (\E c \in Suspensions : BackendFails(c)) => Registries' = Registries ]_vars

\* a completion is suspended at the backend, a call is in progress and a
\* group with two members is cached
C31_Witness ==
    /\ \E c \in Suspensions :
          c.op = "complete" /\ pairing_codes[c.pairing_id].status = "verified"
    /\ \E id \in DOMAIN active_calls : active_calls[id].status = "in_progress"
    /\ \E id \in DOMAIN group_cache : group_cache[id].member_count = 2

====
